---- MODULE Spec2Model ----
(***************************************************************************)
(* Model of package mergesort (src/unnamed/part_000): func Sort, the merge *)
(* coroutine, the composite-key function and the file helpers.             *)
(*                                                                         *)
(* Strings are sequences of byte values.  The source file is one byte      *)
(* sequence; a run ("keys_") file is the sequence of its lines, each line  *)
(* holding its terminating line feed, as fmt.Fprintln writes them.         *)
(***************************************************************************)
EXTENDS Integers, Sequences, FiniteSets, TLC

\* ---------------------------------------------------------------- bounds
MaxRecs == 3         \* most records (lines) in a source file
MaxKeysPerSort == 2  \* largest batch size tried
MaxRuns == 7         \* most initial runs of a sort with batch size 1

\* ------------------------------------------------------- program constants
LF == 10             \* '\n', the delimiter of reader.ReadString
CR == 13             \* '\r' of the Trim cutset
SP == 32             \* ' ' of the Trim cutset and of fmt's padding
TAB == 9             \* the field separator sep of the demo
GS == 29             \* _asciiGS
ChanCap == 1         \* capacity of chan4command and of chan4tasks

\* ---------------------------------------------------------- string helpers
\* Go's string comparison s < t: bytewise lexicographic.
RECURSIVE Less(_, _)
Less(s, t) ==
    IF t = <<>> THEN FALSE
    ELSE IF s = <<>> THEN TRUE
    ELSE IF Head(s) # Head(t) THEN Head(s) < Head(t)
    ELSE Less(Tail(s), Tail(t))

\* Go's s > t.
Greater(s, t) == Less(t, s)

\* reader.ReadString('\n') on data with the cursor at byte offset pos:
\* the bytes up to and including the next LF, or up to the end with io.EOF.
ReadString(data, pos) ==
    LET lfs == {i \in (pos + 1)..Len(data) : data[i] = LF}
    IN  IF lfs = {}
        THEN [rec |-> SubSeq(data, pos + 1, Len(data)), next |-> Len(data), eof |-> TRUE]
        ELSE LET e == CHOOSE i \in lfs : \A j \in lfs : i <= j
             IN  [rec |-> SubSeq(data, pos + 1, e), next |-> e, eof |-> FALSE]

\* strings.Split(s, sep) for a one-byte separator.
RECURSIVE Split(_, _)
Split(s, sep) ==
    LET hits == {i \in 1..Len(s) : s[i] = sep}
    IN  IF hits = {} THEN <<s>>
        ELSE LET i == CHOOSE i \in hits : \A j \in hits : i <= j
             IN  <<SubSeq(s, 1, i - 1)>> \o Split(SubSeq(s, i + 1, Len(s)), sep)

\* strings.TrimLeft(s, cutset) and strings.Trim(s, cutset).
RECURSIVE TrimLeft(_, _)
TrimLeft(s, cut) ==
    IF s # <<>> /\ Head(s) \in cut THEN TrimLeft(Tail(s), cut) ELSE s

RECURSIVE TrimRight(_, _)
TrimRight(s, cut) ==
    IF s # <<>> /\ s[Len(s)] \in cut THEN TrimRight(SubSeq(s, 1, Len(s) - 1), cut) ELSE s

Trim(s, cut) == TrimRight(TrimLeft(s, cut), cut)

TrimSet == {SP, CR, LF}

\* fmt.Sprintf("%<w>s", s) / "%<w>v": right-justify in w columns, pad with blanks.
PadLeft(s, w) ==
    IF Len(s) >= w THEN s ELSE [i \in 1..(w - Len(s)) |-> SP] \o s

\* strconv.FormatInt(n, 10) for n >= 0.
RECURSIVE FormatInt(_)
FormatInt(n) ==
    IF n < 10 THEN <<48 + n>> ELSE FormatInt(n \div 10) \o <<48 + (n % 10)>>

\* strconv.ParseInt(s, 10, 64): -1 stands for the error return.
RECURSIVE ParseInt(_)
ParseInt(s) ==
    IF s = <<>> \/ \E i \in 1..Len(s) : s[i] < 48 \/ s[i] > 57 THEN -1
    ELSE IF Len(s) = 1 THEN s[1] - 48
    ELSE 10 * ParseInt(SubSeq(s, 1, Len(s) - 1)) + (s[Len(s)] - 48)

RECURSIVE Concat(_)
Concat(ss) == IF ss = <<>> THEN <<>> ELSE Head(ss) \o Concat(Tail(ss))

\* math.Max on the widths.
Max(a, b) == IF a >= b THEN a ELSE b

\* ------------------------------------------------------------------ state
VARIABLES
    in,            \* the arguments of Sort and the source file they name
    pc,            \* where the driver (func Sort) stands
    haltMsg,       \* the message of the halt that ended the process, or ""
    numFields,     \* number of fields of the first record
    widths,        \* widest value seen per column
    keySpecs,      \* []keyParams: COLIDX and the width of FORMAT "%<width>s"
    seekLen,       \* digits of the source file size
    rdPos,         \* read cursor of readerIn / fhIn
    errIn,         \* errIn == io.EOF
    keys,          \* the in-memory batch of composite keys
    recordStart,   \* offset of the next record
    numKeys,       \* keys created
    numRecs,       \* reads done by the key loop
    todo,          \* key files to be processed
    chan4command,  \* buffered channel of commands
    chan4tasks,    \* buffered channel of [2]string tasks
    sync4Merge,    \* the counter of the WaitGroup _sync4Merge
    mpc,           \* where the coroutine merge stands
    eot,           \* merge's flag: an "e-o-t" command is pending
    key1, key2,    \* merge's current keys
    task,          \* the task merge is working on: inputs and output file
    files,         \* temp directory: contents of each existing keys_ file
    nCreated,      \* temp files created so far; a file is known by its number
    removed,       \* the files os.Remove was called on, in order
    submitted,     \* the tasks sent on chan4tasks, in order
    listed,        \* the latest listing of the run files, and the tasks sent before it
    runsMade,      \* the key lists of the runs the key loop wrote, in order
    outFile,       \* the destination file: created or not, and its bytes
    written        \* the records the output loop wrote: offset sought, bytes

inputVars == <<in>>
prepVars  == <<numFields, widths, keySpecs, seekLen>>
loopVars  == <<rdPos, errIn, keys, recordStart, numKeys, numRecs>>
chanVars  == <<chan4command, chan4tasks>>
mergeVars == <<mpc, eot, key1, key2, task>>
dirVars   == <<files, nCreated, removed>>
outVars   == <<outFile, written>>
histVars  == <<submitted, listed, runsMade>>
vars == <<in, pc, haltMsg, numFields, widths, keySpecs, seekLen, rdPos, errIn,
          keys, recordStart, numKeys, numRecs, todo, chan4command, chan4tasks,
          sync4Merge, mpc, eot, key1, key2, task, files, nCreated,
          removed, submitted, listed, runsMade, outFile, written>>

\* ----------------------------------------------------------------- inputs
\* The records a source file is made of: "ab\tx", "b\ty", a blank line, and
\* "b", a record of one field only.
WellFormed == { <<97, 98, TAB, 120>>, <<98, TAB, 121>> }
BlankRec   == << >>
ShortRec   == << 98 >>
RecKinds   == WellFormed \cup {BlankRec, ShortRec}

RECURSIVE SeqsUpTo(_, _)
SeqsUpTo(S, n) ==
    IF n = 0 THEN { <<>> }
    ELSE LET shorter == SeqsUpTo(S, n - 1)
         IN  shorter \cup { Append(q, x) : q \in {r \in shorter : Len(r) = n - 1}, x \in S }

\* The bytes of a file of the given lines; the last line may lack its LF.
RECURSIVE FileOf(_, _)
FileOf(lines, lastTerminated) ==
    IF lines = <<>> THEN <<>>
    ELSE IF Len(lines) = 1
         THEN Head(lines) \o (IF lastTerminated THEN <<LF>> ELSE <<>>)
         ELSE Head(lines) \o <<LF>> \o FileOf(Tail(lines), lastTerminated)

Sources == { FileOf(q, t) : q \in SeqsUpTo(RecKinds, MaxRecs) \ { <<>> }, t \in BOOLEAN }

\* Calls that pass the entry checks of Sort.
ValidCalls ==
    [ inFile : {"demo.in"}, outFile : {"demo.out"}, sortAsc : BOOLEAN,
      usingFields : { <<1>>, <<2, 1>> },
      sep : {TAB}, keysPerSort : (1..MaxKeysPerSort) \cup {-1},
      exists : {TRUE}, data : Sources \ { <<>> } ]

\* Calls around the entry checks: every combination of the six conditions.
EntryCalls ==
    [ inFile : {"", "demo.in"}, outFile : {"", "demo.out"}, sortAsc : {TRUE},
      usingFields : { <<>>, <<1>> }, sep : {TAB}, keysPerSort : {0, 1},
      exists : BOOLEAN, data : { <<>>, <<98, TAB, 121, LF>> } ]

\* ------------------------------------------------------------------- Init
InitRest ==
    /\ pc = "entry"
    /\ haltMsg = ""
    /\ numFields = 0 /\ widths = <<>> /\ keySpecs = <<>> /\ seekLen = 0
    /\ rdPos = 0 /\ errIn = FALSE /\ keys = <<>> /\ recordStart = 0
    /\ numKeys = 0 /\ numRecs = 0 /\ todo = <<>>
    /\ chan4command = <<>> /\ chan4tasks = <<>>
    /\ sync4Merge = 0
    /\ mpc = "notStarted" /\ eot = FALSE /\ key1 = <<>> /\ key2 = <<>>
    /\ task = <<>>
    /\ nCreated = 0 /\ removed = <<>> /\ submitted = <<>>
    /\ listed = [files |-> <<>>, sent |-> 0, rounds |-> 0]
    /\ runsMade = <<>>
    /\ outFile = [created |-> FALSE, bytes |-> <<>>]
    /\ written = <<>>

\* The temp directory holds no keys_ file when Sort is called.
Init ==
    /\ in \in ValidCalls \cup EntryCalls
    /\ files = <<>>
    /\ InitRest

\* The temp directory already holds a keys_ file, number 0, left by an
\* aborted earlier sort: one key "b", group separator, offset 0.
OrphanFile == 0 :> << <<98, GS, 48, LF>> >>

OrphanCalls ==
    [ inFile : {"demo.in"}, outFile : {"demo.out"}, sortAsc : BOOLEAN,
      usingFields : { <<1>> }, sep : {TAB},
      keysPerSort : (1..MaxKeysPerSort),
      exists : {TRUE},
      data : { FileOf(q, TRUE) : q \in SeqsUpTo(WellFormed, MaxRecs) \ { <<>> } } ]

InitOrphan ==
    /\ in \in OrphanCalls
    /\ files = OrphanFile
    /\ InitRest

\* Sorts by the first column with one key per run: sources of up to MaxRuns
\* records "b\ty" give up to MaxRuns initial runs and several rounds.
RoundCalls ==
    [ inFile : {"demo.in"}, outFile : {"demo.out"}, sortAsc : BOOLEAN,
      usingFields : { <<1>> }, sep : {TAB}, keysPerSort : {1},
      exists : {TRUE},
      data : { FileOf(q, TRUE) :
                   q \in SeqsUpTo({ <<98, TAB, 121>> }, MaxRuns) \ { <<>> } } ]

InitRounds ==
    /\ in \in RoundCalls
    /\ files = <<>>
    /\ InitRest

\* ------------------------------------------------------------ func Sort
\* halt(msg): log.Fatalln ends the process.
Halted(msg) == pc' = "halted" /\ haltMsg' = msg

\* A run-time panic (index out of range) ends the process as well.
Panicked == pc' = "panicked" /\ haltMsg' = ""

Alive == pc \notin {"halted", "panicked"}

\* Mutant of EntryError: the check of usingFields is missing.
EntryErrorNoFieldsCheck ==
    IF in.inFile = "" THEN "the input file was not specified"
    ELSE IF in.outFile = "" THEN "the output file was not specified"
    ELSE IF in.keysPerSort = 0 THEN "the number of keys for in-place sorting was not specified"
    ELSE IF ~in.exists \/ Len(in.data) = 0 THEN "the input file cannot be located or is empty"
    ELSE ""

\* The first entry check that fails, or "" (lines 51-56).
EntryError ==
    IF in.inFile = "" THEN "the input file was not specified"
    ELSE IF in.outFile = "" THEN "the output file was not specified"
    ELSE IF in.usingFields = <<>> THEN "the index fields columns were not specified"
    ELSE IF in.keysPerSort = 0 THEN "the number of keys for in-place sorting was not specified"
    ELSE IF ~in.exists \/ Len(in.data) = 0 THEN "the input file cannot be located or is empty"
    ELSE ""

Validate ==
    /\ pc = "entry"
    /\ IF EntryError # ""
       THEN Halted(EntryError)
       ELSE pc' = "launch" /\ haltMsg' = haltMsg
    /\ UNCHANGED <<inputVars, prepVars, loopVars, todo, chanVars, sync4Merge,
                   mergeVars, dirVars, histVars, outVars>>

\* _sync4Merge.Add(1); go merge(...)  (lines 72-73)
Launch ==
    /\ pc = "launch"
    /\ sync4Merge' = sync4Merge + 1
    /\ mpc' = "select"
    /\ pc' = "prepass"
    /\ UNCHANGED <<inputVars, haltMsg, prepVars, loopVars, todo, chanVars,
                   eot, key1, key2, task, dirVars, histVars, outVars>>

\* The reads of a loop "for errIn != io.EOF { record, errIn = readString }"
\* that starts at offset pos: each record with the offset it starts at.
RECURSIVE Reads(_, _)
Reads(data, pos) ==
    LET r == ReadString(data, pos)
    IN  <<[rec |-> r.rec, start |-> pos, eof |-> r.eof]>>
        \o (IF r.eof THEN <<>> ELSE Reads(data, r.next))

\* strings.Split(strings.Trim(record, " \r\n"), sep)
FieldsOf(record) == Split(Trim(record, TrimSet), in.sep)

\* numFields: the fields of the first record, untrimmed (lines 78-79).
FirstNumFields == Len(Split(ReadString(in.data, 0).rec, in.sep))

\* widths[k] = math.Max(widths[k], len(v)) over every read (lines 82-90).
WidthOf(k) ==
    LET rs == Reads(in.data, 0)
        RECURSIVE W(_)
        W(i) == IF i = 0 THEN 0
                ELSE LET f == FieldsOf(rs[i].rec)
                     IN  Max(W(i - 1), IF k <= Len(f) THEN Len(f[k]) ELSE 0)
    IN  W(Len(rs))

\* widths[k] with k beyond numFields: index out of range (line 88).
WidthsPanic ==
    \E i \in 1..Len(Reads(in.data, 0)) :
        Len(FieldsOf(Reads(in.data, 0)[i].rec)) > FirstNumFields

\* widths[colIdx] with colIdx outside the slice: index out of range (line 102).
KeySpecsPanic ==
    \E i \in 1..Len(in.usingFields) : in.usingFields[i] \notin 1..FirstNumFields

\* keyParams{COLIDX: colIdx, FORMAT: "%<width>s"} per sort column (lines 98-104).
MakeKeySpecs ==
    [i \in 1..Len(in.usingFields) |->
        [COLIDX |-> in.usingFields[i] - 1, WIDTH |-> WidthOf(in.usingFields[i])]]

\* Mutant of SeekLen: the width is the digits of the number of reads.
SeekLenOfReads == Len(FormatInt(Len(Reads(in.data, 0))))

\* len(strconv.FormatInt(fi.Size(), 10)): the digits of the source's size.
SeekLen == Len(FormatInt(Len(in.data)))

\* Lines 75-108: open the source, size the columns, build the key formats,
\* rewind the reader.
PrePass ==
    /\ pc = "prepass"
    /\ IF WidthsPanic \/ KeySpecsPanic
       THEN /\ Panicked
            /\ UNCHANGED prepVars
       ELSE /\ numFields' = FirstNumFields
            /\ widths' = [k \in 1..FirstNumFields |-> WidthOf(k)]
            /\ keySpecs' = MakeKeySpecs
            /\ seekLen' = SeekLen
            /\ pc' = "keyloop"
            /\ haltMsg' = haltMsg
    /\ UNCHANGED <<inputVars, loopVars, todo, chanVars, sync4Merge, mergeVars,
                   dirVars, histVars, outVars>>

\* ------------------------------------------------ makeCompositeKeyFn
\* fields[v.COLIDX] with too few fields: index out of range (line 202).
KeyPanics(record) ==
    \E i \in 1..Len(keySpecs) : keySpecs[i].COLIDX + 1 > Len(Split(record, in.sep))

\* Mutant of FieldsKey: the fields are not padded to their widths ("%s").
FieldsKeyUnpadded(record) ==
    LET fields == Split(record, in.sep)
    IN  Concat([i \in 1..Len(keySpecs) |-> fields[keySpecs[i].COLIDX + 1]])

\* key += fmt.Sprintf(v.FORMAT, fields[v.COLIDX]) over the key specs.
FieldsKey(record) ==
    LET fields == Split(record, in.sep)
    IN  Concat([i \in 1..Len(keySpecs) |->
                   PadLeft(fields[keySpecs[i].COLIDX + 1], keySpecs[i].WIDTH)])

\* Mutant of OffsetField: the offset is not padded to seekLen ("%v").
OffsetFieldUnpadded(start) == FormatInt(start)

\* fmt.Sprintf("%s%s%<seekLen>v", key, _asciiGS, recordStart)
OffsetField(start) == PadLeft(FormatInt(start), seekLen)

CompositeKey(record, start) == FieldsKey(record) \o <<GS>> \o OffsetField(start)

\* ------------------------------------------------------ sorting a batch
\* The order keys.Sort() and sort.Sort(sort.Reverse(keys)) sort by.
Before(a, b, asc) == IF asc THEN Less(a, b) ELSE Greater(a, b)

RECURSIVE InsertKey(_, _, _)
InsertKey(k, sorted, asc) ==
    IF sorted = <<>> THEN <<k>>
    ELSE IF Before(k, Head(sorted), asc) THEN <<k>> \o sorted
    ELSE <<Head(sorted)>> \o InsertKey(k, Tail(sorted), asc)

RECURSIVE SortKeys(_, _)
SortKeys(ks, asc) ==
    IF ks = <<>> THEN <<>>
    ELSE InsertKey(ks[Len(ks)], SortKeys(SubSeq(ks, 1, Len(ks) - 1), asc), asc)

\* fmt.Fprintln(fhKeys, v) for every key: the lines of the run file.
RunLines(ks) == [i \in 1..Len(ks) |-> ks[i] \o <<LF>>]

\* ------------------------------------------------------- temp directory
\* os.Remove of the files ids.
Without(fs, ids) == [f \in DOMAIN fs \ ids |-> fs[f]]

\* ------------------------------------------------- func Sort, continued
\* Mutant of Advance: the length is taken after the trim.
AdvanceTrimmed(start, rec) == start + Len(Trim(rec, TrimSet))

\* recordStart += int64(recordLen), recordLen taken before the trim.
Advance(start, rec) == start + Len(rec)

\* Mutant of FlushNow: the test len(keys) > 0 is missing.
FlushNowAlsoEmpty(ks, eof) == Len(ks) = in.keysPerSort \/ eof

\* len(keys) > 0 && (len(keys) == keysPerSort || errIn == io.EOF)
FlushNow(ks, eof) == Len(ks) > 0 /\ (Len(ks) = in.keysPerSort \/ eof)

\* One turn of the key loop (lines 109-134): read a record, encode its key
\* unless it is blank, and when the batch is full or the input is at its end
\* sort the batch and write it to a new run file.  With two files in todo the
\* driver goes on to send them (SendFirstPass).
KeyLoop ==
    /\ pc = "keyloop"
    /\ LET r       == ReadString(in.data, rdPos)
           trimmed == Trim(r.rec, TrimSet)
           keys1   == IF Len(trimmed) > 0
                      THEN Append(keys, CompositeKey(trimmed, recordStart))
                      ELSE keys
           flush   == FlushNow(keys1, r.eof)
           sorted  == SortKeys(keys1, in.sortAsc)
           id      == nCreated + 1
           after   == IF r.eof THEN "sendEot" ELSE "keyloop"
       IN  IF Len(trimmed) > 0 /\ KeyPanics(trimmed)
           THEN /\ Panicked
                /\ numRecs' = numRecs + 1
                /\ UNCHANGED <<rdPos, errIn, keys, recordStart, numKeys, todo,
                               dirVars, runsMade>>
           ELSE /\ rdPos' = r.next
                /\ errIn' = r.eof
                /\ numRecs' = numRecs + 1
                /\ numKeys' = IF Len(trimmed) > 0 THEN numKeys + 1 ELSE numKeys
                /\ recordStart' = Advance(recordStart, r.rec)
                /\ haltMsg' = haltMsg
                /\ IF flush
                   THEN /\ files' = files @@ (id :> RunLines(sorted))
                        /\ nCreated' = id
                        /\ removed' = removed
                        /\ todo' = Append(todo, id)
                        /\ runsMade' = Append(runsMade, sorted)
                        /\ IF Len(todo) + 1 = 2
                           THEN keys' = sorted /\ pc' = "sendFirstPass"
                           ELSE keys' = <<>> /\ pc' = after
                   ELSE /\ keys' = keys1
                        /\ pc' = after
                        /\ UNCHANGED <<todo, dirVars, runsMade>>
    /\ UNCHANGED <<inputVars, prepVars, chanVars, sync4Merge, mergeVars,
                   submitted, listed, outVars>>

\* chan4tasks<- [2]string{todo[0], todo[1]}; todo = nil; keys = nil
\* (lines 129-132).  The send blocks while the channel is full.
SendFirstPass ==
    /\ pc = "sendFirstPass"
    /\ Len(chan4tasks) < ChanCap
    /\ chan4tasks' = Append(chan4tasks, <<todo[1], todo[2]>>)
    /\ submitted' = Append(submitted, <<todo[1], todo[2]>>)
    /\ todo' = <<>>
    /\ keys' = <<>>
    /\ pc' = IF errIn THEN "sendEot" ELSE "keyloop"
    /\ UNCHANGED <<inputVars, haltMsg, prepVars, rdPos, errIn, recordStart,
                   numKeys, numRecs, chan4command, sync4Merge, mergeVars,
                   dirVars, listed, runsMade, outVars>>

\* chan4command<- "e-o-t"  (lines 137 and 148)
SendEot ==
    /\ pc = "sendEot"
    /\ Len(chan4command) < ChanCap
    /\ chan4command' = Append(chan4command, "e-o-t")
    /\ pc' = "wait"
    /\ UNCHANGED <<inputVars, haltMsg, prepVars, loopVars, todo, chan4tasks,
                   sync4Merge, mergeVars, dirVars, histVars, outVars>>

\* filepath.Glob(pattern4merged): every keys_ file of the temp directory, in
\* name order.  ioutil.TempFile gives each file a random unused name, and no
\* listing holds more than one file of an earlier listing, so a listing can
\* come in any order of the files.
Glob ==
    { q \in [1..Cardinality(DOMAIN files) -> DOMAIN files] :
          \A i, j \in DOMAIN q : i # j => q[i] # q[j] }

\* Mutant of WaitAndList: the run files are listed without _sync4Merge.Wait().
WaitAndListNoWait ==
    /\ pc = "wait"
    /\ todo' \in Glob
    /\ listed' = [files |-> todo', sent |-> Len(submitted),
                  rounds |-> listed.rounds + 1]
    /\ pc' = IF Cardinality(DOMAIN files) > 1 THEN "round" ELSE "quit"
    /\ UNCHANGED <<inputVars, haltMsg, prepVars, loopVars, chanVars,
                   sync4Merge, mergeVars, dirVars, submitted, runsMade, outVars>>

\* _sync4Merge.Wait(); todo, _ = filepath.Glob(pattern4merged)
\* (lines 139-141 and 150-152)
WaitAndList ==
    /\ pc = "wait"
    /\ sync4Merge = 0
    /\ todo' \in Glob
    /\ listed' = [files |-> todo', sent |-> Len(submitted),
                  rounds |-> listed.rounds + 1]
    /\ pc' = IF Cardinality(DOMAIN files) > 1 THEN "round" ELSE "quit"
    /\ UNCHANGED <<inputVars, haltMsg, prepVars, loopVars, chanVars,
                   sync4Merge, mergeVars, dirVars, submitted, runsMade, outVars>>

\* _sync4Merge.Add(1) at the top of a round (line 143).
RoundBegin ==
    /\ pc = "round"
    /\ sync4Merge' = sync4Merge + 1
    /\ pc' = "pairs"
    /\ UNCHANGED <<inputVars, haltMsg, prepVars, loopVars, todo, chanVars,
                   mergeVars, dirVars, histVars, outVars>>

\* Mutant of SendPair: todo advances by one file, todo = todo[1:].
SendPairByOne ==
    /\ pc = "pairs"
    /\ Len(todo) > 1
    /\ Len(chan4tasks) < ChanCap
    /\ chan4tasks' = Append(chan4tasks, <<todo[1], todo[2]>>)
    /\ submitted' = Append(submitted, <<todo[1], todo[2]>>)
    /\ todo' = Tail(todo)
    /\ pc' = IF Len(todo) - 1 > 1 THEN "pairs" ELSE "sendEot"
    /\ UNCHANGED <<inputVars, haltMsg, prepVars, loopVars, chan4command,
                   sync4Merge, mergeVars, dirVars, listed, runsMade, outVars>>

\* for len(todo) > 1 { chan4tasks<- {todo[0], todo[1]}; todo = todo[2:] }
\* (lines 144-147)
SendPair ==
    /\ pc = "pairs"
    /\ Len(todo) > 1
    /\ Len(chan4tasks) < ChanCap
    /\ chan4tasks' = Append(chan4tasks, <<todo[1], todo[2]>>)
    /\ submitted' = Append(submitted, <<todo[1], todo[2]>>)
    /\ todo' = SubSeq(todo, 3, Len(todo))
    /\ pc' = IF Len(todo) - 2 > 1 THEN "pairs" ELSE "sendEot"
    /\ UNCHANGED <<inputVars, haltMsg, prepVars, loopVars, chan4command,
                   sync4Merge, mergeVars, dirVars, listed, runsMade, outVars>>

\* chan4command<- "quit"  (line 153)
SendQuit ==
    /\ pc = "quit"
    /\ Len(chan4command) < ChanCap
    /\ chan4command' = Append(chan4command, "quit")
    /\ pc' = "output"
    /\ UNCHANGED <<inputVars, haltMsg, prepVars, loopVars, todo, chan4tasks,
                   sync4Merge, mergeVars, dirVars, histVars, outVars>>

\* scannerKeys.Text(): the line without its line terminator.
ScanText(line) == TrimRight(TrimRight(line, {LF}), {CR})

\* The output loop (lines 161-170) over the lines of the sorted key file:
\* the records written, and how the loop ended.  Split(...)[1] panics on a
\* line without the group separator; seekFile halts on a bad offset.
RECURSIVE OutputLoop(_, _)
OutputLoop(lines, acc) ==
    IF lines = <<>> THEN [recs |-> acc, end |-> "ok"]
    ELSE LET parts == Split(ScanText(Head(lines)), GS)
             off   == ParseInt(TrimLeft(parts[2], {SP}))
         IN  IF Len(parts) < 2 THEN [recs |-> acc, end |-> "panic"]
             ELSE IF off < 0 THEN [recs |-> acc, end |-> "halt"]
             ELSE OutputLoop(Tail(lines),
                             Append(acc, [offset |-> off,
                                          record |-> ReadString(in.data, off).rec]))

\* Mutant of RemoveSorted: the sorted key file is left behind.
RemoveSortedSkipped(fs, id) == fs

\* os.Remove(sortedKeysFile)  (line 175)
RemoveSorted(fs, id) == Without(fs, {id})

\* Lines 156-177: copy the records named by the sorted key file to the
\* destination, then remove the key file.
Output ==
    /\ pc = "output"
    /\ IF todo = <<>>
       THEN /\ Panicked       \* todo[0]: index out of range
            /\ UNCHANGED <<dirVars, outVars>>
       ELSE IF todo[1] \notin DOMAIN files
       THEN /\ Halted("os.Open")
            /\ UNCHANGED <<dirVars, outVars>>
       ELSE LET res == OutputLoop(files[todo[1]], <<>>)
            IN  /\ written' = res.recs
                /\ outFile' = [created |-> TRUE,
                               bytes |-> Concat([i \in 1..Len(res.recs) |-> res.recs[i].record])]
                /\ IF res.end = "ok"
                   THEN /\ files' = RemoveSorted(files, todo[1])
                        /\ removed' = Append(removed, todo[1])
                        /\ nCreated' = nCreated
                        /\ pc' = "done"
                        /\ haltMsg' = haltMsg
                   ELSE /\ IF res.end = "halt" THEN Halted("strconv.ParseInt") ELSE Panicked
                        /\ UNCHANGED dirVars
    /\ UNCHANGED <<inputVars, prepVars, loopVars, todo, chanVars, sync4Merge,
                   mergeVars, histVars>>

\* ------------------------------------------------------------ func merge
\* readString on a run file whose next line is number i: the line, or ""
\* with io.EOF behind the last line.
ReadLine(f, i) ==
    IF i > Len(f) THEN [rec |-> <<>>, eof |-> TRUE, next |-> i]
    ELSE [rec |-> f[i], eof |-> FALSE, next |-> i + 1]

\* fmt.Fprint(writer, key): an empty key writes nothing.
Fprint(out, key) == IF key = <<>> THEN out ELSE Append(out, key)

\* Mutant of TakeFirst: the two comparisons are swapped.
TakeFirstSwapped(k1, k2, asc) == IF asc THEN Greater(k1, k2) ELSE Less(k1, k2)

\* if sortAsc { key1 < key2 } else { key1 > key2 }: the first key is written.
TakeFirst(k1, k2, asc) == IF asc THEN Less(k1, k2) ELSE Greater(k1, k2)

\* The loop of lines 226-246 over the state key1, errKeys1, key2, errKeys2,
\* the two readers and the writer.
RECURSIVE MergeLoop(_, _, _, _)
MergeLoop(f1, f2, asc, st) ==
    IF (st.key1 # <<>> \/ ~st.eof1) /\ (st.key2 # <<>> \/ ~st.eof2)
    THEN LET r1 == IF st.key1 = <<>> THEN ReadLine(f1, st.i1)
                   ELSE [rec |-> st.key1, eof |-> st.eof1, next |-> st.i1]
             r2 == IF st.key2 = <<>> THEN ReadLine(f2, st.i2)
                   ELSE [rec |-> st.key2, eof |-> st.eof2, next |-> st.i2]
             first == TakeFirst(r1.rec, r2.rec, asc)
         IN  MergeLoop(f1, f2, asc,
                 [key1 |-> IF first THEN <<>> ELSE r1.rec, eof1 |-> r1.eof, i1 |-> r1.next,
                  key2 |-> IF first THEN r2.rec ELSE <<>>, eof2 |-> r2.eof, i2 |-> r2.next,
                  out  |-> Fprint(st.out, IF first THEN r1.rec ELSE r2.rec)])
    ELSE st

\* "for errKeys != io.EOF { key, errKeys = readString(reader); Fprint }":
\* the lines left in f from line i on.
Rest(f, i) == SubSeq(f, i, Len(f))

\* Mutant of Drain: the remaining keys are copied through a variable of the
\* drain's own, key1 and key2 stay as the merge loop left them.
DrainKeepsKeys(f1, f2, st) ==
    IF st.key1 # <<>> \/ ~st.eof1
    THEN [out  |-> Fprint(st.out, st.key1) \o (IF st.eof1 THEN <<>> ELSE Rest(f1, st.i1)),
          key1 |-> st.key1,
          key2 |-> st.key2]
    ELSE [out  |-> Fprint(st.out, st.key2) \o (IF st.eof2 THEN <<>> ELSE Rest(f2, st.i2)),
          key1 |-> st.key1,
          key2 |-> st.key2]

\* Lines 247-260: save the remaining keys of the file that has some left.
Drain(f1, f2, st) ==
    IF st.key1 # <<>> \/ ~st.eof1
    THEN [out  |-> Fprint(st.out, st.key1) \o (IF st.eof1 THEN <<>> ELSE Rest(f1, st.i1)),
          key1 |-> IF st.eof1 THEN st.key1 ELSE <<>>,
          key2 |-> st.key2]
    ELSE [out  |-> Fprint(st.out, st.key2) \o (IF st.eof2 THEN <<>> ELSE Rest(f2, st.i2)),
          key1 |-> st.key1,
          key2 |-> IF st.eof2 THEN st.key2 ELSE <<>>]

\* One task: the merged lines and the keys left in key1 and key2.
MergeFiles(f1, f2, asc, k1, k2) ==
    Drain(f1, f2, MergeLoop(f1, f2, asc,
              [key1 |-> k1, eof1 |-> FALSE, i1 |-> 1,
               key2 |-> k2, eof2 |-> FALSE, i2 |-> 1, out |-> <<>>]))

\* case command := <-chan4command  (lines 215-217)
RecvCommand ==
    /\ Alive
    /\ mpc = "select"
    /\ chan4command # <<>>
    /\ chan4command' = Tail(chan4command)
    /\ eot' = (Head(chan4command) = "e-o-t")
    /\ mpc' = IF Head(chan4command) = "quit" THEN "exited" ELSE "select"
    /\ UNCHANGED <<inputVars, pc, haltMsg, prepVars, loopVars, todo, chan4tasks,
                   sync4Merge, key1, key2, task, dirVars, histVars, outVars>>

\* case tasks := <-chan4tasks: open both inputs and create the output file
\* (lines 218-224).  openFile halts when a file cannot be opened.
MergeStart ==
    /\ Alive
    /\ mpc = "select"
    /\ chan4tasks # <<>>
    /\ chan4tasks' = Tail(chan4tasks)
    /\ LET t == Head(chan4tasks)
       IN  IF t[1] \notin DOMAIN files \/ t[2] \notin DOMAIN files
           THEN /\ Halted("os.Open")
                /\ UNCHANGED <<mpc, task, dirVars>>
           ELSE /\ task' = [in1 |-> t[1], in2 |-> t[2], out |-> nCreated + 1]
                /\ files' = files @@ ((nCreated + 1) :> <<>>)
                /\ nCreated' = nCreated + 1
                /\ removed' = removed
                /\ mpc' = "merging"
                /\ UNCHANGED <<pc, haltMsg>>
    /\ UNCHANGED <<inputVars, prepVars, loopVars, todo, chan4command,
                   sync4Merge, eot, key1, key2, histVars, outVars>>

\* Lines 226-268: merge the two inputs into the output, close and remove
\* the inputs, sync and close the output.
MergeFinish ==
    /\ Alive
    /\ mpc = "merging"
    /\ LET m == MergeFiles(files[task.in1], files[task.in2], in.sortAsc, key1, key2)
       IN  /\ files' = [Without(files, {task.in1, task.in2}) EXCEPT ![task.out] = m.out]
           /\ key1' = m.key1
           /\ key2' = m.key2
    /\ removed' = removed \o <<task.in1, task.in2>>
    /\ task' = <<>>
    /\ mpc' = "select"
    /\ UNCHANGED <<inputVars, pc, haltMsg, prepVars, loopVars, todo, chanVars,
                   sync4Merge, eot, nCreated, histVars, outVars>>

\* Mutant of RoundDone: the end of a round is acted on as soon as the flag is
\* set, with a task still waiting in chan4tasks.
RoundDoneEarly ==
    /\ Alive
    /\ mpc = "select"
    /\ eot
    /\ IF sync4Merge = 0
       THEN Panicked /\ UNCHANGED sync4Merge
       ELSE sync4Merge' = sync4Merge - 1 /\ UNCHANGED <<pc, haltMsg>>
    /\ eot' = FALSE
    /\ UNCHANGED <<inputVars, prepVars, loopVars, todo, chanVars, mpc, key1,
                   key2, task, dirVars, histVars, outVars>>

\* Mutant of RoundDone: the flag is not cleared after _sync4Merge.Done().
RoundDoneKeepsFlag ==
    /\ Alive
    /\ mpc = "select"
    /\ chan4command = <<>> /\ chan4tasks = <<>>
    /\ eot /\ Len(chan4tasks) = 0
    /\ IF sync4Merge = 0
       THEN Panicked /\ UNCHANGED sync4Merge
       ELSE sync4Merge' = sync4Merge - 1 /\ UNCHANGED <<pc, haltMsg>>
    /\ UNCHANGED <<inputVars, prepVars, loopVars, todo, chanVars, mpc, eot, key1,
                   key2, task, dirVars, histVars, outVars>>

\* default: if eot && len(chan4tasks) == 0 { _sync4Merge.Done(); eot = false }
\* (lines 269-274).  select takes default only when neither channel is ready;
\* without a pending e-o-t the turn changes nothing.
RoundDone ==
    /\ Alive
    /\ mpc = "select"
    /\ chan4command = <<>> /\ chan4tasks = <<>>
    /\ eot /\ Len(chan4tasks) = 0
    /\ IF sync4Merge = 0
       THEN Panicked /\ UNCHANGED sync4Merge   \* sync: negative WaitGroup counter
       ELSE sync4Merge' = sync4Merge - 1 /\ UNCHANGED <<pc, haltMsg>>
    /\ eot' = FALSE
    /\ UNCHANGED <<inputVars, prepVars, loopVars, todo, chanVars, mpc, key1,
                   key2, task, dirVars, histVars, outVars>>

\* ------------------------------------------------------------------- Next
Next ==
    \/ Validate
    \/ Launch
    \/ PrePass
    \/ KeyLoop
    \/ SendFirstPass
    \/ SendEot
    \/ WaitAndList
    \/ RoundBegin
    \/ SendPair
    \/ SendQuit
    \/ Output
    \/ RecvCommand
    \/ MergeStart
    \/ MergeFinish
    \/ RoundDone

Spec == Init /\ [][Next]_vars

SpecOrphan == InitOrphan /\ [][Next]_vars

SpecRounds == InitRounds /\ [][Next]_vars

\* The two goroutines: func Sort, and the coroutine started by "go merge".
Driver ==
    \/ Validate \/ Launch \/ PrePass \/ KeyLoop \/ SendFirstPass \/ SendEot
    \/ WaitAndList \/ RoundBegin \/ SendPair \/ SendQuit \/ Output

Coordinator == RecvCommand \/ MergeStart \/ MergeFinish \/ RoundDone

\* The Go scheduler runs every goroutine that can take a step.
FairSpec == Init /\ [][Next]_vars /\ WF_vars(Driver) /\ WF_vars(Coordinator)

\* ======================================================================
\* Properties
\* ======================================================================
\* The records of the source file in file order, each with the offset of its
\* first byte (the empty read at the end of the file is no record).
SrcRecords == SelectSeq(Reads(in.data, 0), LAMBDA r : r.rec # <<>>)

NonBlank(r) == Trim(r.rec, TrimSet) # <<>>

\* The values of the selected sort fields, primary first.
Selected(rec) == [i \in 1..Len(in.usingFields) |-> FieldsOf(rec)[in.usingFields[i]]]

\* The widest value of column c among the non-blank records.
ColWidth(c) ==
    LET recs == SrcRecords
        RECURSIVE W(_)
        W(i) == IF i = 0 THEN 0
                ELSE LET f    == FieldsOf(recs[i].rec)
                         rest == W(i - 1)
                     IN  IF c <= Len(f) /\ Len(f[c]) > rest THEN Len(f[c]) ELSE rest
    IN  W(Len(recs))

RightJustified(s, w) == [i \in 1..(IF w > Len(s) THEN w - Len(s) ELSE 0) |-> SP] \o s

\* The selected fields, each right-justified to the width of its column.
Justified(rec) ==
    [i \in 1..Len(in.usingFields) |->
        RightJustified(Selected(rec)[i], ColWidth(in.usingFields[i]))]

\* Tuples compared field by field in priority order.
RECURSIVE TupleLess(_, _)
TupleLess(a, b) ==
    IF a = <<>> THEN FALSE
    ELSE IF Head(a) # Head(b) THEN Less(Head(a), Head(b))
    ELSE TupleLess(Tail(a), Tail(b))

\* written lists the pieces of the destination file in file order.
PlacedBefore(oa, ob) ==
    \E i, j \in 1..Len(written) :
        i < j /\ written[i].offset = oa /\ written[j].offset = ob

\* Two non-blank records with the same values in every selected field stand
\* in the destination in their source order.
TiesKeepOrder ==
    \A a, b \in 1..Len(SrcRecords) :
        (/\ a < b
         /\ NonBlank(SrcRecords[a]) /\ NonBlank(SrcRecords[b])
         /\ Selected(SrcRecords[a].rec) = Selected(SrcRecords[b].rec))
        => /\ PlacedBefore(SrcRecords[a].start, SrcRecords[b].start)
           /\ ~PlacedBefore(SrcRecords[b].start, SrcRecords[a].start)

HasTie ==
    \E a, b \in 1..Len(SrcRecords) :
        /\ a < b
        /\ NonBlank(SrcRecords[a]) /\ NonBlank(SrcRecords[b])
        /\ Selected(SrcRecords[a].rec) = Selected(SrcRecords[b].rec)

\* C1: an ascending Sort is stable: when it has returned, any two non-blank
\* records that agree on every selected field stand in the destination in
\* source order, whatever the batch size and the number of merges.
C1_AscendingStable == (pc = "done" /\ in.sortAsc) => TiesKeepOrder

\* Tied records of three one-key runs, merged twice.
C1_Witness ==
    /\ pc = "done" /\ in.sortAsc /\ HasTie
    /\ in.keysPerSort = 1 /\ Len(written) = 3 /\ Len(removed) = 5

\* C2: a descending Sort is stable: tied records stand in the destination in
\* source order, within one run and after any number of merges.
C2_DescendingStable == (pc = "done" /\ ~in.sortAsc) => TiesKeepOrder

\* The non-blank lines of a file, without their line feeds.
LineTexts(data) ==
    LET rs == SelectSeq(Reads(data, 0), LAMBDA r : Trim(r.rec, TrimSet) # <<>>)
    IN  [i \in 1..Len(rs) |-> TrimRight(rs[i].rec, {LF})]

SameBag(p, q) ==
    /\ Len(p) = Len(q)
    /\ \A x \in {p[i] : i \in 1..Len(p)} \cup {q[i] : i \in 1..Len(q)} :
          Cardinality({i \in 1..Len(p) : p[i] = x}) = Cardinality({i \in 1..Len(q) : q[i] = x})

\* C3: when Sort has returned, the destination holds the records of the
\* source, the same number of them and the same contents, in some order.
\* The records are the non-blank ones, the only ones the sort handles.
C3_Permutation ==
    pc = "done" => SameBag(LineTexts(outFile.bytes), LineTexts(in.data))

\* C4: the destination is ordered on the selected fields, each right-justified
\* to the width of its column and compared in priority order: no record is
\* followed by one that sorts before it (ascending) or after it (descending);
\* and two composite keys compare as their tuples of fields do whenever the
\* tuples differ, whatever the offsets.
C4_OrderedByPriority ==
    /\ pc = "done" =>
          \A i \in 1..(Len(written) - 1) :
              IF in.sortAsc
              THEN ~TupleLess(Justified(written[i + 1].record), Justified(written[i].record))
              ELSE ~TupleLess(Justified(written[i].record), Justified(written[i + 1].record))
    /\ (pc = "keyloop" /\ numRecs = 0) =>
          \A a, b \in 1..Len(SrcRecords) :
              (/\ NonBlank(SrcRecords[a]) /\ NonBlank(SrcRecords[b])
               /\ ~KeyPanics(Trim(SrcRecords[a].rec, TrimSet))
               /\ ~KeyPanics(Trim(SrcRecords[b].rec, TrimSet))
               /\ TupleLess(Justified(SrcRecords[a].rec), Justified(SrcRecords[b].rec)))
              => Less(CompositeKey(Trim(SrcRecords[a].rec, TrimSet), SrcRecords[a].start),
                      CompositeKey(Trim(SrcRecords[b].rec, TrimSet), SrcRecords[b].start))

\* A secondary field and an offset that both point the other way than the
\* primary field: "ab\tx" at a later offset sorts before "b\ty".
C4_Witness ==
    /\ pc = "done" /\ in.sortAsc /\ in.usingFields = <<2, 1>>
    /\ \E i \in 1..(Len(written) - 1) :
          /\ written[i].record = <<97, 98, TAB, 120, LF>>
          /\ written[i + 1].record = <<98, TAB, 121, LF>>
          /\ written[i].offset > written[i + 1].offset

\* Every record is non-blank and the file is in the requested order on the
\* selected fields (ties allowed).
SourceSorted ==
    /\ \A a \in 1..Len(SrcRecords) : NonBlank(SrcRecords[a])
    /\ \A a \in 1..(Len(SrcRecords) - 1) :
          IF in.sortAsc
          THEN ~TupleLess(Justified(SrcRecords[a + 1].rec), Justified(SrcRecords[a].rec))
          ELSE ~TupleLess(Justified(SrcRecords[a].rec), Justified(SrcRecords[a + 1].rec))

\* C5: sorting a file that is already in the requested order gives a
\* destination identical to the source.
C5_Idempotent == (pc = "done" /\ SourceSorted) => outFile.bytes = in.data

\* C6: when Sort has returned no run file is left: every file created has
\* been removed, the unpaired run of a round and the sorted key file too.
C6_Cleanup ==
    pc = "done" =>
        /\ DOMAIN files = {}
        /\ \A f \in 1..nCreated : \E i \in 1..Len(removed) : removed[i] = f

\* Three runs: one left unpaired by the first pass, two merges, one final file.
C6_Witness == pc = "done" /\ nCreated = 5 /\ Len(submitted) = 2

\* One of the six entry conditions holds.
BadCall ==
    \/ in.inFile = "" \/ in.outFile = "" \/ in.usingFields = <<>>
    \/ in.keysPerSort = 0 \/ ~in.exists \/ Len(in.data) = 0

\* C7: with an empty source or destination path, no sort fields, a batch size
\* of zero, a missing source or an empty one, Sort does nothing but halt: the
\* coroutine is never started and no temp file or destination is created.
C7_EntryValidation ==
    BadCall =>
        /\ pc \in {"entry", "halted"}
        /\ pc = "halted" => haltMsg # ""
        /\ mpc = "notStarted" /\ sync4Merge = 0
        /\ nCreated = 0 /\ DOMAIN files = {} /\ ~outFile.created

C7_Witness ==
    /\ pc = "halted" /\ in.inFile # "" /\ in.outFile # "" /\ in.exists
    /\ in.usingFields = <<>> /\ mpc = "notStarted"

\* C8: a negative batch size makes Sort halt before any run file is created.
C8_NegativeBatchHalts ==
    in.keysPerSort < 0 => (pc \in {"entry", "halted"} /\ nCreated = 0)

\* The key loop has read a non-blank record that lacks a field the key
\* specs name.
MalformedRead ==
    /\ keySpecs # <<>>
    /\ \E i \in 1..numRecs :
          LET t == Trim(Reads(in.data, 0)[i].rec, TrimSet)
          IN  t # <<>> /\ KeyPanics(t)

\* C9: a non-blank record with fewer fields than the key specs name ends the
\* process by a halt with the MalformedRecord diagnostic, and leaves no key.
C9_MalformedRecordHalts ==
    MalformedRead => (pc = "halted" /\ haltMsg = "MalformedRecord")

\* C10: a keys_ file that was in the temp directory before Sort started is
\* never part of a merge task, never removed, and none of its keys reaches
\* the destination.
C10_OrphanUntouched ==
    /\ \A i \in 1..Len(submitted) : 0 \notin {submitted[i][1], submitted[i][2]}
    /\ \A i \in 1..Len(removed) : removed[i] # 0
    /\ 0 \in DOMAIN files /\ files[0] = OrphanFile[0]
    /\ pc = "done" =>
          Len(written) = Cardinality({a \in 1..Len(SrcRecords) : NonBlank(SrcRecords[a])})

\* ---------------------------------------------------------------- C11
\* The highest column the call sorts by.
MaxField ==
    LET RECURSIVE M(_)
        M(i) == IF i = 0 THEN 0 ELSE Max(in.usingFields[i], M(i - 1))
    IN  M(Len(in.usingFields))

\* A call that passes the entry checks on a source with a non-blank record,
\* all of whose non-blank records have every field the call sorts by.
SortableSource ==
    /\ EntryError = ""
    /\ \E i \in 1..Len(SrcRecords) : NonBlank(SrcRecords[i])
    /\ \A i \in 1..Len(SrcRecords) :
          NonBlank(SrcRecords[i]) =>
              Len(Split(Trim(SrcRecords[i].rec, TrimSet), in.sep)) >= MaxField

Finished == pc \in {"done", "halted", "panicked"}

\* No goroutine blocks for ever: until the call has ended, by Sort returning
\* or by the process ending, some goroutine can take a step.  Every step
\* moves the call forward, so under fair scheduling every call ends.  The
\* pre-pass, the key loop, the output loop and a running merge never wait.
NoDeadlock ==
    \/ Finished
    \/ pc \in {"prepass", "keyloop", "output"}
    \/ mpc = "merging"
    \/ ENABLED (\/ Validate \/ Launch \/ SendFirstPass \/ SendEot \/ WaitAndList
                \/ RoundBegin \/ SendPair \/ SendQuit
                \/ RecvCommand \/ MergeStart \/ RoundDone)

\* When Sort has returned, the shutdown was sent and received and the one
\* remaining run file was consumed.
ReturnedClean ==
    pc = "done" => /\ mpc \in {"exited", "select"}
                   /\ chan4tasks = <<>>
                   /\ Cardinality(DOMAIN files) = 0

\* C11: for every source with a non-blank well-formed record, the sort never
\* ends short of Sort returning: the process is never ended by halt or by a
\* panic, so that under fair scheduling Sort returns.
C11_SortReturns == SortableSource => pc \notin {"halted", "panicked"}

\* ---------------------------------------------------------------- C12
\* Every task sent so far has been carried out: both its inputs are removed.
AllTasksDone ==
    \A i \in 1..Len(submitted) :
        \E j, k \in 1..Len(removed) :
            removed[j] = submitted[i][1] /\ removed[k] = submitted[i][2]

\* No merge is under way and none is waiting.
MergeIdle == chan4tasks = <<>> /\ mpc # "merging" /\ task = <<>>

\* C12: the barrier is down (the counter is 0) only with the task queue empty
\* and no merge under way, also when select took the e-o-t command before a
\* queued task; so when the driver passes Wait and lists the run files every
\* task sent so far is done, and the listing is exactly the complete files.
C12_BarrierSafety ==
    /\ (chan4tasks # <<>> \/ mpc = "merging") => sync4Merge = 1
    /\ (pc = "wait" /\ sync4Merge = 0) => MergeIdle /\ AllTasksDone
    /\ pc \in {"round", "quit"} =>
          /\ MergeIdle /\ AllTasksDone
          /\ {todo[i] : i \in 1..Len(todo)} = DOMAIN files
          /\ \A f \in DOMAIN files : files[f] # <<>>

\* The e-o-t command was taken before the last task of the round: the merge
\* runs with the flag set and the barrier still up.
C12_Witness == mpc = "merging" /\ eot /\ sync4Merge = 1 /\ pc = "wait"

\* ---------------------------------------------------------------- C13
\* C13: the counter of _sync4Merge is 0 or 1 in every state; the driver is
\* about to add 1 (at the launch and at the top of a round) only when it is
\* 0; and while it is 0 the round flag is false, so that no second Done can
\* take it below zero: one release per end-of-round.
C13_BarrierCounter ==
    /\ sync4Merge \in {0, 1}
    /\ pc \in {"entry", "launch", "round"} => sync4Merge = 0
    /\ pc \in {"prepass", "keyloop", "sendFirstPass", "pairs", "sendEot"} => sync4Merge = 1
    /\ sync4Merge = 0 => ~eot
    /\ eot => chan4command = <<>> /\ pc = "wait"

\* The barrier of a merge round (not of the first pass) has been released.
C13_Witness == pc = "wait" /\ sync4Merge = 0 /\ ~eot /\ listed.rounds = 1

\* ---------------------------------------------------------------- C14
\* The files a sequence of file numbers names.
Range(q) == {q[i] : i \in 1..Len(q)}

NoRepeats(q) == \A i, j \in 1..Len(q) : i # j => q[i] # q[j]

\* The inputs of all tasks sent so far, in order.
RECURSIVE TaskInputs(_)
TaskInputs(ts) ==
    IF ts = <<>> THEN <<>> ELSE <<Head(ts)[1], Head(ts)[2]>> \o TaskInputs(Tail(ts))

\* C14: a run file is an input of at most one merge task (no task names a
\* file twice, no two tasks name the same file), is removed exactly once, by
\* the merge that read it or by the output loop for the last run, and is not
\* opened once removed: the inputs of a queued or running task and the file
\* the output loop is about to open exist, and no open has failed.
C14_RunLifecycle ==
    /\ NoRepeats(TaskInputs(submitted))
    /\ NoRepeats(removed)
    /\ Range(removed) \cap DOMAIN files = {}
    /\ Range(removed) \ Range(TaskInputs(submitted)) # {} =>
          pc = "done" /\ Cardinality(Range(removed) \ Range(TaskInputs(submitted))) = 1
    /\ \A i \in 1..Len(chan4tasks) : {chan4tasks[i][1], chan4tasks[i][2]} \subseteq DOMAIN files
    /\ mpc = "merging" => {task.in1, task.in2} \subseteq DOMAIN files
    /\ (pc = "output" /\ todo # <<>>) => todo[1] \in DOMAIN files
    /\ haltMsg # "os.Open"
    /\ pc = "done" => Range(removed) = 1..nCreated

\* A sort of three rounds has returned: every file it made was removed once.
C14_Witness == pc = "done" /\ listed.rounds >= 3 /\ Len(removed) = nCreated

\* ---------------------------------------------------------------- C15
\* The lines of a run are in the direction of the sort, no two alike.
SortedRun(f, asc) == \A i, j \in 1..Len(f) : i < j => Before(f[i], f[j], asc)

\* The two inputs of the running merge.
Input1 == files[task.in1]
Input2 == files[task.in2]

\* Two non-empty sorted runs with pairwise distinct keys.
MergeInputsOk ==
    /\ Input1 # <<>> /\ Input2 # <<>>
    /\ SortedRun(Input1, in.sortAsc) /\ SortedRun(Input2, in.sortAsc)
    /\ Range(Input1) \cap Range(Input2) = {}

\* What the running merge writes.
Merged == MergeFiles(Input1, Input2, in.sortAsc, key1, key2).out

\* C15: every merge task is given two non-empty sorted runs with pairwise
\* distinct keys, and writes a run that holds exactly the keys of both, each
\* once, sorted in the same direction, whichever input runs out first.
C15_MergeCorrect ==
    mpc = "merging" =>
        /\ MergeInputsOk
        /\ Len(Merged) = Len(Input1) + Len(Input2)
        /\ Range(Merged) = Range(Input1) \cup Range(Input2)
        /\ SortedRun(Merged, in.sortAsc)

\* A merge of runs of unequal lengths whose shorter input runs out first,
\* with keys of the longer one still to be copied.
C15_Witness ==
    /\ mpc = "merging"
    /\ Len(Input1) > Len(Input2) + 1
    /\ Before(Input2[Len(Input2)], Input1[Len(Input1) - 1], in.sortAsc)

\* ---------------------------------------------------------------- C16
\* The files of the round's listing, and the tasks sent since it was taken.
RoundFiles == listed.files
RoundTasks == SubSeq(submitted, listed.sent + 1, Len(submitted))

\* The tasks of the round pair the listing two at a time, in its order.
PairsInListingOrder ==
    \A k \in 1..Len(RoundTasks) :
        /\ 2 * k <= Len(RoundFiles)
        /\ RoundTasks[k] = <<RoundFiles[2 * k - 1], RoundFiles[2 * k]>>

\* C16: a round is started on m >= 2 listed files; it sends floor(m/2) tasks,
\* the pairs of the listing in its order, two files at a time, leaving an odd
\* last file unsent, and when its barrier is down ceil(m/2) run files exist;
\* when the barrier of the first pass is down, the n initial runs have become
\* ceil(n/2) run files by floor(n/2) tasks.
C16_RoundHalving ==
    /\ pc \in {"round", "pairs"} => Len(RoundFiles) >= 2
    /\ (pc = "pairs" /\ listed.rounds >= 1) =>
          /\ PairsInListingOrder
          /\ todo = SubSeq(RoundFiles, 2 * Len(RoundTasks) + 1, Len(RoundFiles))
    /\ (pc \in {"sendEot", "wait"} /\ listed.rounds >= 1) =>
          /\ PairsInListingOrder
          /\ Len(RoundTasks) = Len(RoundFiles) \div 2
          /\ todo = SubSeq(RoundFiles, 2 * (Len(RoundFiles) \div 2) + 1, Len(RoundFiles))
    /\ (pc = "wait" /\ sync4Merge = 0 /\ listed.rounds >= 1) =>
          Cardinality(DOMAIN files) = (Len(RoundFiles) + 1) \div 2
    /\ (pc = "wait" /\ sync4Merge = 0 /\ listed.rounds = 0) =>
          /\ Len(submitted) = Len(runsMade) \div 2
          /\ Cardinality(DOMAIN files) = (Len(runsMade) + 1) \div 2

\* The barrier of a round on three files is down: two run files exist.
C16_Witness ==
    /\ pc = "wait" /\ sync4Merge = 0 /\ listed.rounds >= 1
    /\ Len(RoundFiles) = 3 /\ Len(RoundTasks) = 1
    /\ Cardinality(DOMAIN files) = 2

\* ---------------------------------------------------------------- C17
\* The composite key of the non-blank source record number a.
KeyOf(a) == CompositeKey(Trim(SrcRecords[a].rec, TrimSet), SrcRecords[a].start)

\* The non-blank source records a key can be made of.
Keyed == { a \in 1..Len(SrcRecords) :
             NonBlank(SrcRecords[a]) /\ ~KeyPanics(Trim(SrcRecords[a].rec, TrimSet)) }

\* C17: the composite keys of a source are ordered strictly and totally by
\* string comparison: the keys of two different non-blank records differ and
\* have one length, the offset field has the width of the digits of the file
\* size, and when the selected fields of the two records are equal the keys
\* compare as the offsets of the records do.
C17_KeysTotalOrder ==
    (pc = "keyloop" /\ numRecs = 0) =>
        \A a, b \in Keyed :
            /\ Len(OffsetField(SrcRecords[a].start)) = Len(FormatInt(Len(in.data)))
            /\ a # b =>
                  /\ KeyOf(a) # KeyOf(b)
                  /\ Len(KeyOf(a)) = Len(KeyOf(b))
                  /\ Less(KeyOf(a), KeyOf(b)) # Less(KeyOf(b), KeyOf(a))
                  /\ Selected(SrcRecords[a].rec) = Selected(SrcRecords[b].rec) =>
                        (Less(KeyOf(a), KeyOf(b)) <=> SrcRecords[a].start < SrcRecords[b].start)

\* Two records with equal selected fields, one at an offset of one digit and
\* one at an offset of two digits.
C17_Witness ==
    /\ pc = "keyloop" /\ numRecs = 0
    /\ \E a, b \in Keyed :
          /\ Selected(SrcRecords[a].rec) = Selected(SrcRecords[b].rec)
          /\ 0 < SrcRecords[a].start /\ SrcRecords[a].start < 10
          /\ SrcRecords[b].start >= 10

\* ---------------------------------------------------------------- C18
\* The offset a composite key carries, as the output loop reads it.
OffsetIn(key) == ParseInt(TrimLeft(Split(key, GS)[2], {SP}))

\* The non-blank records among recs.
NonBlankOf(recs) == { a \in 1..Len(recs) : NonBlank(recs[a]) }

\* The key was built from one of the non-blank records recs[a], a in nb, and
\* carries the byte position of the first byte of that record.
KeyOfARecord(key, recs, nb) ==
    \E a \in nb :
        /\ ~KeyPanics(Trim(recs[a].rec, TrimSet))
        /\ key = CompositeKey(Trim(recs[a].rec, TrimSet), recs[a].start)
        /\ OffsetIn(key) = recs[a].start

\* The non-blank records of the source.
NonBlanks == NonBlankOf(SrcRecords)

\* The key loop is at work or has just ended: keys, runsMade and numKeys
\* change in no other state.
InFirstPass ==
    \/ pc \in {"keyloop", "sendFirstPass"}
    \/ pc = "sendEot" /\ listed.rounds = 0

\* C18: the running offset is the byte position of the next record, blank
\* records included; a blank record gives no key; every key made carries the
\* byte position of the record it was built from; and the output loop writes,
\* for each key, exactly the record that starts at the offset of the key.
C18_OffsetsSurviveBlanks ==
    /\ pc \in {"keyloop", "sendFirstPass"} => recordStart = rdPos
    /\ InFirstPass =>
          LET recs == SrcRecords
              nb   == NonBlankOf(recs)
          IN  /\ \A i \in 1..Len(keys) : KeyOfARecord(keys[i], recs, nb)
              /\ \A r \in 1..Len(runsMade) :
                    \A i \in 1..Len(runsMade[r]) : KeyOfARecord(runsMade[r][i], recs, nb)
              /\ errIn => numKeys = Cardinality(nb)
    /\ pc = "done" =>
          LET recs == SrcRecords
              nb   == NonBlankOf(recs)
          IN  /\ Len(written) = Cardinality(nb)
              /\ \A i \in 1..Len(written) :
                    \E a \in nb : /\ recs[a].start = written[i].offset
                                  /\ recs[a].rec = written[i].record

\* A sort has returned whose source has a blank record before a non-blank
\* one, which was written from its offset.
C18_Witness ==
    /\ pc = "done"
    /\ \E a, b \in 1..Len(SrcRecords) :
          /\ a < b /\ a \notin NonBlanks /\ b \in NonBlanks
          /\ \E i \in 1..Len(written) : written[i].offset = SrcRecords[b].start

\* ---------------------------------------------------------------- C19
\* K, the non-blank records of the source, and B, the batch size.
K == Cardinality(NonBlanks)
B == in.keysPerSort

\* The key loop has read the source to its end.
KeyLoopOver == errIn /\ pc \notin {"panicked", "keyloop"}

\* A task has just been sent, or Sort has returned: submitted changes in no
\* other state.
AfterSend == pc \in {"keyloop", "sendEot", "pairs", "done"}

\* C19: with a batch size B >= 1 every initial run is sorted and holds
\* between 1 and B keys, every run but the last holds exactly B, and a run
\* of fewer keys is written only at the end of the source; when the key loop
\* is over a source of K >= 1 non-blank records, ceil(K/B) runs were made;
\* and with K < B that is one run, and no merge task is ever sent.
C19_InitialRuns ==
    B >= 1 =>
        /\ InFirstPass =>
              LET k == K
              IN  /\ \A r \in 1..Len(runsMade) :
                        /\ SortedRun(runsMade[r], in.sortAsc)
                        /\ Len(runsMade[r]) >= 1 /\ Len(runsMade[r]) <= B
                        /\ (r < Len(runsMade) \/ ~errIn) => Len(runsMade[r]) = B
                  /\ (KeyLoopOver /\ k >= 1) => Len(runsMade) = (k + B - 1) \div B
                  /\ k < B => Len(runsMade) <= 1
                  /\ (KeyLoopOver /\ k >= 1 /\ k < B) => Len(runsMade) = 1
        /\ (AfterSend /\ submitted # <<>>) => K >= B

\* The key loop is over a source that holds two batches worth of non-blank
\* records and ends with a blank line: the runs are full, none is empty.
C19_Witness ==
    /\ KeyLoopOver /\ B = 1 /\ K = 2 /\ Len(runsMade) = 2
    /\ SrcRecords # <<>>
    /\ SrcRecords[Len(SrcRecords)] \notin {SrcRecords[a] : a \in NonBlanks}

\* ---------------------------------------------------------------- C20
\* C20: key1 and key2, which live as long as the coroutine, are both empty
\* whenever the coroutine is between tasks or has just taken one: a merge
\* starts with no key of an earlier task.
C20_NoKeyLeak == mpc \in {"select", "merging", "exited"} => key1 = <<>> /\ key2 = <<>>

\* A third task starts, after a merge of runs of unequal lengths.
C20_Witness ==
    /\ mpc = "merging" /\ Len(removed) >= 4
    /\ Len(Input1) # Len(Input2)

\* ---------------------------------------------------------------- C21
\* The driver is about to send "quit" or has sent it and is about to open
\* the sorted key file.
AtShutdown == pc \in {"quit", "output"}

\* C21: when the driver sends the shutdown, exactly one run file exists and
\* it is the one listed, for every source that passed the entry checks, a
\* source of blank lines only included.
C21_OneRunAtShutdown ==
    AtShutdown => Cardinality(DOMAIN files) = 1 /\ Len(todo) = 1

\* ---------------------------------------------------------------- C22
\* The lines of a file: what is read up to and with each line feed, and
\* what is left after the last one.
LinesOf(data) == SelectSeq(Reads(data, 0), LAMBDA r : r.rec # <<>>)

EndsWithLF(rec) == rec # <<>> /\ rec[Len(rec)] = LF

\* C22: when Sort has returned, no two records are joined in the destination:
\* every record written before another one ends with a line feed, the last
\* record of the source included when the sort moves it forward, so that the
\* destination has as many lines as the source has non-blank records.
C22_NoConcatenation ==
    pc = "done" =>
        /\ \A i \in 1..(Len(written) - 1) : EndsWithLF(written[i].record)
        /\ Len(LinesOf(outFile.bytes)) = Cardinality(NonBlanks)
====
